---------------------------- MODULE Spec2Model ----------------------------
(***************************************************************************)
(* A model of todui: the markdown codec of TodoList (src/src/main.rs), the *)
(* key-event state machine of the two App variants (src/src/main.rs and    *)
(* src/src/tui/mod.rs) and the TodoApp core they share.                    *)
(*                                                                         *)
(* A Rust String is modelled as the sequence of its characters; a          *)
(* character is a one-character TLA+ string and Utf8Len gives the number   *)
(* of bytes it takes, so that byte offsets (String::len, char_indices,     *)
(* String::insert, String::drain) are computed as the code computes them.  *)
(***************************************************************************)
EXTENDS Integers, Sequences, FiniteSets, TLC

VARIABLES
    variant,         \* which App is running: "main" (main.rs) or "tui" (tui/mod.rs)
    items,           \* todo_list.items
    selected_index,  \* App.selected_index (0-based, as in the code)
    mode,            \* App.mode
    edit_text,       \* App.edit_text
    edit_cursor,     \* App.edit_cursor
    should_quit,     \* App.should_quit
    disk,            \* content of the persisted TODO-{date}.md file
    crashed,         \* a handler panicked (the process is gone)
    last,            \* the last key event: its match arm, the arm before it, the
                     \* mode, index and item count it met, and how it returned
    nkeys,           \* number of key events handled so far
    c_pc,            \* codec scenario: "list", then "encoded", then "decoded"
    c_list,          \* codec scenario: the TodoList handed to to_markdown
    c_md,            \* codec scenario: the markdown content
    c_out,           \* codec scenario: the result of from_markdown(c_md)
    c_in             \* decode scenario: the header and the lines c_md was put together from

appVars == <<variant, items, selected_index, mode, edit_text, edit_cursor,
             should_quit, disk, crashed, last, nkeys>>
codecVars == <<c_pc, c_list, c_md, c_out, c_in>>
vars == <<variant, items, selected_index, mode, edit_text, edit_cursor,
          should_quit, disk, crashed, last, nkeys, c_pc, c_list, c_md, c_out, c_in>>

-----------------------------------------------------------------------------
(* Bounds of the model *)

\* key events handled in one session
MaxKeys == 5
\* codec scenario: items of a list, characters of an item text, indent depth
MaxCodecItems == 1
MaxCodecLen == 2
MaxCodecIndent == 2

-----------------------------------------------------------------------------
(* Strings *)

\* the two-byte character of the tests ('ü', U+00FC)
UUML == "ü"

Utf8Len(c) == IF c = UUML THEN 2 ELSE 1

RECURSIVE ByteLen(_)
\* String::len: the length in bytes
ByteLen(s) == IF s = <<>> THEN 0 ELSE Utf8Len(Head(s)) + ByteLen(Tail(s))

\* chars().count()
CharCount(s) == Len(s)

\* char::is_whitespace, on the characters of the model
IsWhitespace(c) == c \in {" ", "\t", "\n", "\r"}

StartsWith(s, p) == Len(s) >= Len(p) /\ SubSeq(s, 1, Len(p)) = p

\* strip_prefix(p).unwrap(), called where starts_with(p) holds
StripPrefix(s, p) == SubSeq(s, Len(p) + 1, Len(s))

RECURSIVE TrimStart(_)
\* str::trim_start
TrimStart(s) ==
    IF s # <<>> /\ IsWhitespace(Head(s)) THEN TrimStart(Tail(s)) ELSE s

\* line.trim().is_empty()
TrimIsEmpty(s) == \A i \in 1..Len(s) : IsWhitespace(s[i])

RECURSIVE Repeat(_, _)
\* str::repeat
Repeat(s, n) == IF n = 0 THEN <<>> ELSE s \o Repeat(s, n - 1)

RECURSIVE Concat(_)
Concat(ss) == IF ss = <<>> THEN <<>> ELSE Head(ss) \o Concat(Tail(ss))

RECURSIVE SplitInclusive(_, _)
\* the pieces of s, each ending with its "\n" (the last one may lack it);
\* acc is the piece being collected
SplitInclusive(s, acc) ==
    IF s = <<>> THEN (IF acc = <<>> THEN <<>> ELSE <<acc>>)
    ELSE IF Head(s) = "\n" THEN <<acc \o <<"\n">>>> \o SplitInclusive(Tail(s), <<>>)
    ELSE SplitInclusive(Tail(s), acc \o <<Head(s)>>)

\* one line of str::lines: the piece without its "\n", and without a "\r"
\* right before that "\n"
StripLineEnd(piece) ==
    IF piece # <<>> /\ piece[Len(piece)] = "\n"
    THEN LET l == SubSeq(piece, 1, Len(piece) - 1) IN
         IF l # <<>> /\ l[Len(l)] = "\r" THEN SubSeq(l, 1, Len(l) - 1) ELSE l
    ELSE piece

\* str::lines
Lines(s) ==
    LET pieces == SplitInclusive(s, <<>>) IN
    [i \in 1..Len(pieces) |-> StripLineEnd(pieces[i])]

-----------------------------------------------------------------------------
(* Dates: NaiveDate as [y, m, d], formatted and parsed with "%Y-%m-%d" *)

DigitChars == <<"0", "1", "2", "3", "4", "5", "6", "7", "8", "9">>

IsDigit(c) == \E i \in 1..10 : DigitChars[i] = c

DigitVal(c) == (CHOOSE i \in 1..10 : DigitChars[i] = c) - 1

Digit(n) == DigitChars[n + 1]

DaysInMonth(y, m) ==
    IF m \in {4, 6, 9, 11} THEN 30
    ELSE IF m = 2
         THEN (IF (y % 4 = 0 /\ y % 100 # 0) \/ y % 400 = 0 THEN 29 ELSE 28)
         ELSE 31

\* date.format("%Y-%m-%d"), for the years 0..9999
FormatDate(date) ==
    << Digit(date.y \div 1000), Digit((date.y \div 100) % 10),
       Digit((date.y \div 10) % 10), Digit(date.y % 10), "-",
       Digit(date.m \div 10), Digit(date.m % 10), "-",
       Digit(date.d \div 10), Digit(date.d % 10) >>

NoDate == [y |-> -1, m |-> 0, d |-> 0]

\* scan::number(s, 1, max): the length of the run of at most max digits s
\* starts with (0: no digit, the scan fails)
RECURSIVE DigitRun(_, _)
DigitRun(s, max) ==
    IF max > 0 /\ s # <<>> /\ IsDigit(Head(s))
    THEN 1 + DigitRun(Tail(s), max - 1)
    ELSE 0

\* the value of a run of digits
RECURSIVE Number(_)
Number(ds) ==
    IF ds = <<>> THEN 0
    ELSE Number(SubSeq(ds, 1, Len(ds) - 1)) * 10 + DigitVal(ds[Len(ds)])

\* s without its first n characters
Skip(s, n) == SubSeq(s, n + 1, Len(s))

\* a numeric item of the format: leading whitespace is skipped, then a run
\* of 1..max digits is read; a signed item (the year) takes '+' or '-' and
\* then digits without a limit. [ok, value, rest]
ParseNumeric(s, max, signed) ==
    LET t == TrimStart(s)
        sign == signed /\ t # <<>> /\ Head(t) \in {"+", "-"}
        u == IF sign THEN Tail(t) ELSE t
        n == DigitRun(u, IF sign THEN Len(u) ELSE max)
        v == Number(SubSeq(u, 1, n))
    IN  [ok |-> n > 0,
         value |-> IF sign /\ Head(t) = "-" THEN 0 - v ELSE v,
         rest |-> Skip(u, n)]

\* variant of ParseDate that takes the zero-padded form YYYY-MM-DD only
ParseDate_ZeroPadded(s) ==
    IF /\ Len(s) = 10
       /\ s[5] = "-" /\ s[8] = "-"
       /\ \A i \in {1, 2, 3, 4, 6, 7, 9, 10} : IsDigit(s[i])
    THEN LET y == Number(SubSeq(s, 1, 4))
             m == Number(SubSeq(s, 6, 7))
             d == Number(SubSeq(s, 9, 10))
         IN  IF m \in 1..12 /\ d \in 1..DaysInMonth(y, m)
             THEN [y |-> y, m |-> m, d |-> d]
             ELSE NoDate
    ELSE NoDate

\* NaiveDate::parse_from_str(s, "%Y-%m-%d"): year, "-", month, "-", day and
\* nothing after it, the three numbers a date of the calendar; NoDate
\* stands for Err
ParseDate(s) ==
    LET y == ParseNumeric(s, 4, TRUE)
        m == ParseNumeric(Skip(y.rest, 1), 2, FALSE)
        d == ParseNumeric(Skip(m.rest, 1), 2, FALSE)
    IN  IF /\ y.ok /\ StartsWith(y.rest, <<"-">>)
           /\ m.ok /\ StartsWith(m.rest, <<"-">>)
           /\ d.ok /\ d.rest = <<>>
           /\ y.value \in -262143..262142
           /\ m.value \in 1..12
           /\ d.value \in 1..DaysInMonth(y.value, m.value)
        THEN [y |-> y.value, m |-> m.value, d |-> d.value]
        ELSE NoDate

-----------------------------------------------------------------------------
(* TodoItem and TodoList, and the markdown codec *)

TodoItem(text, completed, indent_level) ==
    [text |-> text, completed |-> completed, indent_level |-> indent_level]

\* to_markdown_line with one space per indent level
to_markdown_line_OneSpaceIndent(item) ==
    Repeat(<<" ">>, item.indent_level) \o <<"*", " ">>
    \o (IF item.completed THEN <<"[", "x", "]">> ELSE <<"[", " ", "]">>)
    \o <<" ">> \o item.text

\* TodoItem::to_markdown_line
to_markdown_line(item) ==
    Repeat(<<" ", " ">>, item.indent_level) \o <<"*", " ">>
    \o (IF item.completed THEN <<"[", "x", "]">> ELSE <<"[", " ", "]">>)
    \o <<" ">> \o item.text

HeaderPrefix == <<"#", " ", "T", "O", "D", "O", " ">>

\* TodoList::to_markdown
to_markdown(list) ==
    HeaderPrefix \o FormatDate(list.date) \o <<"\n", "\n">>
    \o Concat([i \in 1..Len(list.items) |->
                  to_markdown_line(list.items[i]) \o <<"\n">>])

CheckedPrefix == <<"[", "x", "]", " ">>
UncheckedPrefix == <<"[", " ", "]", " ">>

\* from_markdown, the body of the loop for one line: the item the line
\* yields, as a sequence of zero or one items
\* variant of ParseLine that takes the count of leading bytes as the indent level
ParseLine_NoHalving(line) ==
    IF TrimIsEmpty(line) THEN <<>>
    ELSE LET trimmed == TrimStart(line)
             indent_level == ByteLen(line) - ByteLen(trimmed)
         IN  IF ~StartsWith(trimmed, <<"*", " ">>) THEN <<>>
             ELSE LET content == StripPrefix(trimmed, <<"*", " ">>) IN
                  IF StartsWith(content, CheckedPrefix)
                  THEN <<TodoItem(StripPrefix(content, CheckedPrefix), TRUE, indent_level)>>
                  ELSE IF StartsWith(content, UncheckedPrefix)
                  THEN <<TodoItem(StripPrefix(content, UncheckedPrefix), FALSE, indent_level)>>
                  ELSE <<TodoItem(content, FALSE, indent_level)>>

ParseLine(line) ==
    IF TrimIsEmpty(line) THEN <<>>
    ELSE LET trimmed == TrimStart(line)
             indent_level == (ByteLen(line) - ByteLen(trimmed)) \div 2
         IN  IF ~StartsWith(trimmed, <<"*", " ">>) THEN <<>>
             ELSE LET content == StripPrefix(trimmed, <<"*", " ">>) IN
                  IF StartsWith(content, CheckedPrefix)
                  THEN <<TodoItem(StripPrefix(content, CheckedPrefix), TRUE, indent_level)>>
                  ELSE IF StartsWith(content, UncheckedPrefix)
                  THEN <<TodoItem(StripPrefix(content, UncheckedPrefix), FALSE, indent_level)>>
                  ELSE <<TodoItem(content, FALSE, indent_level)>>

\* TodoList::from_markdown; [ok |-> FALSE] stands for Err
from_markdown(content) ==
    LET lines == Lines(content) IN
    IF lines = <<>> THEN [ok |-> FALSE, err |-> "Empty todo file"]
    ELSE IF ~StartsWith(lines[1], HeaderPrefix)
    THEN [ok |-> FALSE, err |-> "Invalid header format"]
    ELSE LET date == ParseDate(StripPrefix(lines[1], HeaderPrefix)) IN
         IF date = NoDate
         THEN [ok |-> FALSE, err |-> "Invalid date format in header"]
         ELSE [ok |-> TRUE, date |-> date,
               items |-> Concat([i \in 1..(IF Len(lines) > 2 THEN Len(lines) - 2 ELSE 0)
                                    |-> ParseLine(lines[i + 2])])]

-----------------------------------------------------------------------------
(* Byte-indexed String operations, as the edit handlers use them *)

\* the result of an operation that panicked
PANIC == <<"panic">>

\* text.char_indices(): the byte offset of each character
CharIndices(s) == [i \in 1..Len(s) |-> ByteLen(SubSeq(s, 1, i - 1))]

\* char_indices().nth(n).map(|(pos, _)| pos).unwrap_or(text.len())
\* variant of NthBytePos that takes the character offset as the byte offset
NthBytePos_CharOffset(s, n) == IF n < Len(s) THEN n ELSE ByteLen(s)

NthBytePos(s, n) == IF n < Len(s) THEN CharIndices(s)[n + 1] ELSE ByteLen(s)

\* str::is_char_boundary
IsCharBoundary(s, b) == \E k \in 0..Len(s) : ByteLen(SubSeq(s, 1, k)) = b

\* the number of characters before byte offset b, a character boundary
CharsBefore(s, b) == CHOOSE k \in 0..Len(s) : ByteLen(SubSeq(s, 1, k)) = b

\* String::insert(idx, ch): panics unless idx is a character boundary
StringInsert(s, idx, ch) ==
    IF ~IsCharBoundary(s, idx) THEN PANIC
    ELSE LET k == CharsBefore(s, idx) IN
         SubSeq(s, 1, k) \o <<ch>> \o SubSeq(s, k + 1, Len(s))

\* String::drain(from..to): panics unless both ends are character boundaries
\* and from <= to
StringDrain(s, from, to) ==
    IF from > to \/ ~IsCharBoundary(s, from) \/ ~IsCharBoundary(s, to) THEN PANIC
    ELSE SubSeq(s, 1, CharsBefore(s, from)) \o SubSeq(s, CharsBefore(s, to) + 1, Len(s))

\* usize::saturating_sub(1)
SaturatingDec(n) == IF n > 0 THEN n - 1 ELSE 0

Min(a, b) == IF a < b THEN a ELSE b

-----------------------------------------------------------------------------
(* Vec<TodoItem>, indexed from 0 as in the code *)

At(its, i) == its[i + 1]

\* Vec::remove(i), called where i < len
VecRemove(its, i) == SubSeq(its, 1, i) \o SubSeq(its, i + 2, Len(its))

\* Vec::insert(i, item), called where i <= len
VecInsert(its, i, item) == SubSeq(its, 1, i) \o <<item>> \o SubSeq(its, i + 1, Len(its))

SetCompleted(its, i, b) == [its EXCEPT ![i + 1].completed = b]
SetIndent(its, i, n) == [its EXCEPT ![i + 1].indent_level = n]
SetText(its, i, t) == [its EXCEPT ![i + 1].text = t]

-----------------------------------------------------------------------------
(* The session: the date of the run, the lists a session may load, the keys *)

\* Local::now().date_naive(), the date of the tests
Today == [y |-> 2025, m |-> 8, d |-> 14]

ItemA == TodoItem(<<"q", UUML>>, FALSE, 1)
ItemB == TodoItem(<<>>, TRUE, 0)
ItemC == TodoItem(<<"x">>, FALSE, 2)

\* the lists load_or_create_todo_list may hand to the App
InitialLists == { <<>>, <<ItemA>>, <<ItemA, ItemB, ItemC>> }

\* the characters a Char key may carry: the command letters and a two-byte one
CharKeys == {"q", "x", "i", "d", "y", UUML}

\* the other key codes; F1 stands for the codes no handler names
OtherCodes == {"Up", "Down", "Enter", "Esc", "Tab", "BackTab", "Left", "Right",
               "Backspace", "Delete", "Home", "End", "F1"}

Key(code) == [code |-> code, ch |-> ""]
Char(c) == [code |-> "Char", ch |-> c]

Keys == {Key(c) : c \in OtherCodes} \cup {Char(c) : c \in CharKeys}

\* the keys the arms of handle_selection_mode_key name
SelectionKeys == {Char("q"), Key("Up"), Key("Down"), Char("x"), Char("i"),
                  Key("Enter"), Key("Tab"), Key("BackTab"), Char("d")}

\* the keys the arms of handle_edit_mode_key name, besides Char(c)
EditKeys == {Key("Esc"), Key("Enter"), Key("Left"), Key("Right"),
             Key("Backspace"), Key("Delete"), Key("Home"), Key("End")}

\* the keys the arms of handle_delete_mode_key name
DeleteKeys == {Char("y"), Key("Esc")}

\* run_app reads the next key while the App lives and has not been told to quit
Running == ~crashed /\ ~should_quit /\ nkeys < MaxKeys

InRange == items # <<>> /\ selected_index < Len(items)

\* fs::write of the encoded list: the new content of the file
Encoded(its) == to_markdown([date |-> Today, items |-> its])

\* The state a handler leaves: the App fields, how the handler returned
\* ("ok", "err": a failed write passed up by `?`, "panic") and whether it
\* wrote the file. arm names the match arm that handled the key.
Handled(arm, ch, its, sel, md, txt, cur, quit, result, wrote) ==
    /\ items' = its
    /\ selected_index' = sel
    /\ mode' = md
    /\ edit_text' = txt
    /\ edit_cursor' = cur
    /\ should_quit' = quit
    /\ disk' = IF wrote THEN Encoded(its) ELSE disk
    /\ crashed' = (result = "panic")
    /\ last' = [arm |-> arm, ch |-> ch, prev |-> last.arm, mode |-> mode,
                selected_index |-> selected_index, len |-> Len(items),
                result |-> result, wrote |-> wrote]
    /\ nkeys' = nkeys + 1
    /\ UNCHANGED <<variant, c_pc, c_list, c_md, c_out, c_in>>

\* a handler that changes nothing and returns Ok
Ignored(arm) ==
    Handled(arm, "", items, selected_index, mode, edit_text, edit_cursor,
            should_quit, "ok", FALSE)

\* a handler that panics: the state is what it was when the panic struck
Panicked(arm, its, sel, md, txt, cur) ==
    Handled(arm, "", its, sel, md, txt, cur, should_quit, "panic", FALSE)

-----------------------------------------------------------------------------
(* TodoApp, the core the tui App drives (main.rs); each operation gives the  *)
(* list it leaves and whether it goes on to save_todo_list                   *)

toggle_item_completed(its, index) ==
    IF index < Len(its)
    THEN [items |-> SetCompleted(its, index, ~At(its, index).completed), saves |-> TRUE]
    ELSE [items |-> its, saves |-> FALSE]

\* variant of update_item_text that clamps the index onto the last item
update_item_text_Clamped(its, index, text) ==
    IF its # <<>>
    THEN [items |-> SetText(its, Min(index, Len(its) - 1), text), saves |-> TRUE]
    ELSE [items |-> its, saves |-> FALSE]

update_item_text(its, index, text) ==
    IF index < Len(its)
    THEN [items |-> SetText(its, index, text), saves |-> TRUE]
    ELSE [items |-> its, saves |-> FALSE]

indent_item_left(its, index) ==
    IF index < Len(its) /\ At(its, index).indent_level > 0
    THEN [items |-> SetIndent(its, index, At(its, index).indent_level - 1), saves |-> TRUE]
    ELSE [items |-> its, saves |-> FALSE]

\* variant of indent_item_right that does not save
indent_item_right_NoSave(its, index) ==
    IF index < Len(its)
    THEN [items |-> SetIndent(its, index, At(its, index).indent_level + 1), saves |-> FALSE]
    ELSE [items |-> its, saves |-> FALSE]

indent_item_right(its, index) ==
    IF index < Len(its)
    THEN [items |-> SetIndent(its, index, At(its, index).indent_level + 1), saves |-> TRUE]
    ELSE [items |-> its, saves |-> FALSE]

\* variant of delete_item that removes the last item for an index past the end
delete_item_RemovesLast(its, index) ==
    IF its # <<>>
    THEN [items |-> VecRemove(its, Min(index, Len(its) - 1)), saves |-> TRUE]
    ELSE [items |-> its, saves |-> FALSE]

delete_item(its, index) ==
    IF index < Len(its)
    THEN [items |-> VecRemove(its, index), saves |-> TRUE]
    ELSE [items |-> its, saves |-> FALSE]

\* TodoApp::insert_new_item, which the tui App calls and src/ does not hold:
\* a new empty item with the indent of the preceding item if there is one,
\* else of the item at index, else 0, inserted at index; then a save
insert_new_item(its, index) ==
    LET pos == Min(index, Len(its))
        indent_level == IF pos > 0 THEN At(its, pos - 1).indent_level
                        ELSE IF pos < Len(its) THEN At(its, pos).indent_level
                        ELSE 0
    IN  [items |-> VecInsert(its, pos, TodoItem(<<>>, FALSE, indent_level)),
         saves |-> TRUE]

-----------------------------------------------------------------------------
(* App of main.rs: handle_selection_mode_key *)

\* the outcome of `self.save_todo_list()?`: TRUE when the write succeeded
WriteOutcomes == BOOLEAN

Result(ok) == IF ok THEN "ok" ELSE "err"

MainSelection == Running /\ variant = "main" /\ mode = "Selection"

MainSelQuit ==
    /\ MainSelection
    /\ Handled("q", "", items, selected_index, mode, edit_text, edit_cursor,
               TRUE, "ok", FALSE)

\* variant of the Up arm that stops at index 1
MainSelUp_StopsAtOne ==
    /\ MainSelection
    /\ IF items # <<>> /\ selected_index > 1
       THEN Handled("Up", "", items, selected_index - 1, mode, edit_text,
                    edit_cursor, should_quit, "ok", FALSE)
       ELSE Ignored("Up")

MainSelUp ==
    /\ MainSelection
    /\ IF items # <<>> /\ selected_index > 0
       THEN Handled("Up", "", items, selected_index - 1, mode, edit_text,
                    edit_cursor, should_quit, "ok", FALSE)
       ELSE Ignored("Up")

\* variant of the Down arm without the upper limit items.len()
MainSelDown_Unbounded ==
    /\ MainSelection
    /\ IF items # <<>>
       THEN Handled("Down", "", items, selected_index + 1, mode, edit_text,
                    edit_cursor, should_quit, "ok", FALSE)
       ELSE Ignored("Down")

MainSelDown ==
    /\ MainSelection
    /\ IF items # <<>> /\ selected_index < Len(items)
       THEN Handled("Down", "", items, selected_index + 1, mode, edit_text,
                    edit_cursor, should_quit, "ok", FALSE)
       ELSE Ignored("Down")

\* variant of the 'x' arm that marks the item completed instead of flipping
MainSelToggle_SetsCompleted ==
    /\ MainSelection
    /\ IF InRange
       THEN \E ok \in WriteOutcomes :
              Handled("x", "", SetCompleted(items, selected_index, TRUE),
                      selected_index, mode, edit_text, edit_cursor, should_quit,
                      Result(ok), ok)
       ELSE Ignored("x")

MainSelToggle ==
    /\ MainSelection
    /\ IF InRange
       THEN \E ok \in WriteOutcomes :
              Handled("x", "",
                      SetCompleted(items, selected_index,
                                   ~At(items, selected_index).completed),
                      selected_index, mode, edit_text, edit_cursor, should_quit,
                      Result(ok), ok)
       ELSE Ignored("x")

\* the indent level the 'i' arm gives the new item
MainInsertIndent ==
    IF items = <<>> THEN 0
    ELSE IF selected_index = 0 THEN 0
    ELSE At(items, Min(selected_index - 1, Len(items) - 1)).indent_level

\* the position the 'i' arm inserts at
MainInsertPos == IF items = <<>> THEN 0 ELSE Min(selected_index, Len(items))

MainSelInsert ==
    /\ MainSelection
    /\ Handled("i", "",
               VecInsert(items, MainInsertPos, TodoItem(<<>>, FALSE, MainInsertIndent)),
               MainInsertPos, "Edit", <<>>, 0, should_quit, "ok", FALSE)

\* variant of the Enter arm that appends an empty item on the slot past the end
MainSelEnter_Appends ==
    /\ MainSelection
    /\ IF InRange
       THEN Handled("Enter", "", items, selected_index, "Edit",
                    At(items, selected_index).text,
                    CharCount(At(items, selected_index).text),
                    should_quit, "ok", FALSE)
       ELSE Handled("Enter", "", Append(items, TodoItem(<<>>, FALSE, 0)), Len(items),
                    "Edit", <<>>, 0, should_quit, "ok", FALSE)

MainSelEnter ==
    /\ MainSelection
    /\ IF InRange
       THEN Handled("Enter", "", items, selected_index, "Edit",
                    At(items, selected_index).text,
                    CharCount(At(items, selected_index).text),
                    should_quit, "ok", FALSE)
       ELSE Ignored("Enter")

MainSelTab ==
    /\ MainSelection
    /\ IF InRange
       THEN \E ok \in WriteOutcomes :
              Handled("Tab", "",
                      SetIndent(items, selected_index,
                                At(items, selected_index).indent_level + 1),
                      selected_index, mode, edit_text, edit_cursor, should_quit,
                      Result(ok), ok)
       ELSE Ignored("Tab")

\* variant of the BackTab arm without the indent_level > 0 test
MainSelBackTab_Unguarded ==
    /\ MainSelection
    /\ IF InRange
       THEN \E ok \in WriteOutcomes :
              Handled("BackTab", "",
                      SetIndent(items, selected_index,
                                At(items, selected_index).indent_level - 1),
                      selected_index, mode, edit_text, edit_cursor, should_quit,
                      Result(ok), ok)
       ELSE Ignored("BackTab")

MainSelBackTab ==
    /\ MainSelection
    /\ IF InRange /\ At(items, selected_index).indent_level > 0
       THEN \E ok \in WriteOutcomes :
              Handled("BackTab", "",
                      SetIndent(items, selected_index,
                                At(items, selected_index).indent_level - 1),
                      selected_index, mode, edit_text, edit_cursor, should_quit,
                      Result(ok), ok)
       ELSE Ignored("BackTab")

MainSelDelete ==
    /\ MainSelection
    /\ IF InRange
       THEN Handled("d", "", items, selected_index, "Delete", edit_text,
                    edit_cursor, should_quit, "ok", FALSE)
       ELSE Ignored("d")

\* the `_ => {}` arm
MainSelOther ==
    /\ MainSelection
    /\ \E k \in Keys : k \notin SelectionKeys
    /\ Ignored("_")

-----------------------------------------------------------------------------
(* App of main.rs: handle_edit_mode_key *)

MainEdit == Running /\ variant = "main" /\ mode = "Edit"

\* variant of the Esc arm that keeps an item whose text is empty
MainEditEsc_KeepsEmptyItem ==
    /\ MainEdit
    /\ IF selected_index >= Len(items)
       THEN Panicked("Esc", items, selected_index, mode, edit_text, edit_cursor)
       ELSE Handled("Esc", "", items, selected_index, "Selection", edit_text,
                    edit_cursor, should_quit, "ok", FALSE)

MainEditEsc ==
    /\ MainEdit
    /\ IF selected_index >= Len(items)
       THEN \* items[selected_index]: index out of bounds
            Panicked("Esc", items, selected_index, mode, edit_text, edit_cursor)
       ELSE IF At(items, selected_index).text = <<>>
       THEN LET its == VecRemove(items, selected_index) IN
            Handled("Esc", "", its,
                    IF selected_index > 0 /\ selected_index >= Len(its)
                    THEN selected_index - 1 ELSE selected_index,
                    "Selection", edit_text, edit_cursor, should_quit, "ok", FALSE)
       ELSE Handled("Esc", "", items, selected_index, "Selection", edit_text,
                    edit_cursor, should_quit, "ok", FALSE)

MainEditEnter ==
    /\ MainEdit
    /\ IF selected_index < Len(items)
       THEN LET its == SetText(items, selected_index, edit_text) IN
            \E ok \in WriteOutcomes :
              Handled("Enter", "", its, selected_index,
                      IF ok THEN "Selection" ELSE mode,
                      edit_text, edit_cursor, should_quit, Result(ok), ok)
       ELSE Handled("Enter", "", items, selected_index, "Selection", edit_text,
                    edit_cursor, should_quit, "ok", FALSE)

\* the edit buffer after a key that touches only the buffer
Buffer(arm, ch, txt, cur) ==
    IF txt = PANIC
    THEN Panicked(arm, items, selected_index, mode, edit_text, edit_cursor)
    ELSE Handled(arm, ch, items, selected_index, mode, txt, cur, should_quit,
                 "ok", FALSE)

EditLeft ==
    Buffer("Left", "", edit_text, IF edit_cursor > 0 THEN edit_cursor - 1 ELSE edit_cursor)

EditRight ==
    Buffer("Right", "", edit_text,
           IF edit_cursor < CharCount(edit_text) THEN edit_cursor + 1 ELSE edit_cursor)

EditHome == Buffer("Home", "", edit_text, 0)

EditEnd == Buffer("End", "", edit_text, CharCount(edit_text))

\* the Char(c) arm
\* variant of the Char arm that advances the cursor by the character's bytes
EditChar_ByteCursor(c) ==
    Buffer("Char", c, StringInsert(edit_text, NthBytePos(edit_text, edit_cursor), c),
           edit_cursor + Utf8Len(c))

EditChar(c) ==
    Buffer("Char", c, StringInsert(edit_text, NthBytePos(edit_text, edit_cursor), c),
           edit_cursor + 1)

MainEditLeft == MainEdit /\ EditLeft
MainEditRight == MainEdit /\ EditRight
MainEditHome == MainEdit /\ EditHome
MainEditEnd == MainEdit /\ EditEnd
\* variant of the Char arm of main.rs in which 'q' quits in Edit mode too
MainEditChar_QuitsOnQ ==
    /\ MainEdit
    /\ \/ \E c \in CharKeys \ {"q"} : EditChar(c)
       \/ Handled("Char", "q", items, selected_index, mode, edit_text, edit_cursor,
                  TRUE, "ok", FALSE)

MainEditChar == MainEdit /\ \E c \in CharKeys : EditChar(c)

MainEditBackspace ==
    /\ MainEdit
    /\ IF edit_cursor > 0 /\ edit_cursor - 1 < CharCount(edit_text)
       THEN Buffer("Backspace", "",
                   StringDrain(edit_text, CharIndices(edit_text)[edit_cursor],
                               NthBytePos(edit_text, edit_cursor)),
                   edit_cursor - 1)
       ELSE Ignored("Backspace")

MainEditDelete ==
    /\ MainEdit
    /\ IF edit_cursor < CharCount(edit_text)
       THEN Buffer("Delete", "",
                   StringDrain(edit_text, CharIndices(edit_text)[edit_cursor + 1],
                               NthBytePos(edit_text, edit_cursor + 1)),
                   edit_cursor)
       ELSE Ignored("Delete")

MainEditOther ==
    /\ MainEdit
    /\ \E k \in Keys : k \notin (EditKeys \cup {Char(c) : c \in CharKeys})
    /\ Ignored("_")

-----------------------------------------------------------------------------
(* App of main.rs: handle_delete_mode_key *)

MainDelete == Running /\ variant = "main" /\ mode = "Delete"

MainDelConfirm ==
    /\ MainDelete
    /\ IF InRange
       THEN LET its == VecRemove(items, selected_index)
                sel == IF selected_index >= Len(its) /\ its # <<>>
                       THEN Len(its) - 1 ELSE selected_index
            IN  \E ok \in WriteOutcomes :
                  Handled("y", "", its, sel, IF ok THEN "Selection" ELSE mode,
                          edit_text, edit_cursor, should_quit, Result(ok), ok)
       ELSE Handled("y", "", items, selected_index, "Selection", edit_text,
                    edit_cursor, should_quit, "ok", FALSE)

\* an Esc arm that deletes the item all the same
MainDelEsc_Deletes ==
    /\ MainDelete
    /\ Handled("Esc", "", VecRemove(items, selected_index), selected_index,
               "Selection", edit_text, edit_cursor, should_quit, "ok", FALSE)

MainDelEsc ==
    /\ MainDelete
    /\ Handled("Esc", "", items, selected_index, "Selection", edit_text,
               edit_cursor, should_quit, "ok", FALSE)

MainDelOther ==
    /\ MainDelete
    /\ \E k \in Keys : k \notin DeleteKeys
    /\ Ignored("_")

-----------------------------------------------------------------------------
(* App of tui/mod.rs: handle_selection_mode_key *)

TuiSelection == Running /\ variant = "tui" /\ mode = "Selection"

\* `self.todo_list.op(..)?` as the last statement of an arm: r is what the
\* TodoApp operation leaves
TuiCore(arm, r) ==
    IF r.saves
    THEN \E ok \in WriteOutcomes :
           Handled(arm, "", r.items, selected_index, mode, edit_text,
                   edit_cursor, should_quit, Result(ok), ok)
    ELSE Handled(arm, "", r.items, selected_index, mode, edit_text,
                 edit_cursor, should_quit, "ok", FALSE)

TuiSelQuit ==
    /\ TuiSelection
    /\ Handled("q", "", items, selected_index, mode, edit_text, edit_cursor,
               TRUE, "ok", FALSE)

TuiSelUp ==
    /\ TuiSelection
    /\ IF selected_index > 0
       THEN Handled("Up", "", items, selected_index - 1, mode, edit_text,
                    edit_cursor, should_quit, "ok", FALSE)
       ELSE Ignored("Up")

TuiSelDown ==
    /\ TuiSelection
    /\ IF selected_index < Len(items)
       THEN Handled("Down", "", items, selected_index + 1, mode, edit_text,
                    edit_cursor, should_quit, "ok", FALSE)
       ELSE Ignored("Down")

TuiSelToggle ==
    /\ TuiSelection
    /\ IF items # <<>>
       THEN TuiCore("x", toggle_item_completed(items, selected_index))
       ELSE Ignored("x")

TuiSelInsert ==
    /\ TuiSelection
    /\ LET r == insert_new_item(items, selected_index) IN
       \E ok \in WriteOutcomes :
         Handled("i", "", r.items, selected_index,
                 IF ok THEN "Edit" ELSE mode,
                 edit_text, edit_cursor, should_quit, Result(ok), ok)

\* variant of the Enter arm that puts the cursor at the text's byte length
TuiSelEnter_ByteCursor ==
    /\ TuiSelection
    /\ IF selected_index < Len(items)
       THEN Handled("Enter", "", items, selected_index, "Edit",
                    At(items, selected_index).text,
                    ByteLen(At(items, selected_index).text),
                    should_quit, "ok", FALSE)
       ELSE Ignored("Enter")

TuiSelEnter ==
    /\ TuiSelection
    /\ IF selected_index < Len(items)
       THEN Handled("Enter", "", items, selected_index, "Edit",
                    At(items, selected_index).text,
                    CharCount(At(items, selected_index).text),
                    should_quit, "ok", FALSE)
       ELSE Ignored("Enter")

TuiSelTab ==
    /\ TuiSelection
    /\ TuiCore("Tab", indent_item_right(items, selected_index))

TuiSelBackTab ==
    /\ TuiSelection
    /\ TuiCore("BackTab", indent_item_left(items, selected_index))

TuiSelDelete ==
    /\ TuiSelection
    /\ IF items # <<>>
       THEN Handled("d", "", items, selected_index, "Delete", edit_text,
                    edit_cursor, should_quit, "ok", FALSE)
       ELSE Ignored("d")

TuiSelOther ==
    /\ TuiSelection
    /\ \E k \in Keys : k \notin SelectionKeys
    /\ Ignored("_")

-----------------------------------------------------------------------------
(* App of tui/mod.rs: handle_edit_mode_key *)

TuiEdit == Running /\ variant = "tui" /\ mode = "Edit"

\* variant of the Esc arm that stores the buffer in the item, as Enter does
TuiEditEsc_Commits ==
    /\ TuiEdit
    /\ IF selected_index >= Len(items)
       THEN Panicked("Esc", items, selected_index, mode, edit_text, edit_cursor)
       ELSE Handled("Esc", "", SetText(items, selected_index, edit_text),
                    selected_index, "Selection", edit_text, edit_cursor,
                    should_quit, "ok", FALSE)

TuiEditEsc ==
    /\ TuiEdit
    /\ IF selected_index >= Len(items)
       THEN \* items[selected_index]: index out of bounds
            Panicked("Esc", items, selected_index, mode, edit_text, edit_cursor)
       ELSE IF At(items, selected_index).text = <<>>
       THEN LET r == delete_item(items, selected_index) IN
            \E ok \in WriteOutcomes :
              Handled("Esc", "", r.items,
                      IF ok THEN Min(selected_index, Len(r.items)) ELSE selected_index,
                      IF ok THEN "Selection" ELSE mode,
                      edit_text, edit_cursor, should_quit, Result(ok), ok)
       ELSE Handled("Esc", "", items, selected_index, "Selection", edit_text,
                    edit_cursor, should_quit, "ok", FALSE)

TuiEditEnter ==
    /\ TuiEdit
    /\ LET r == update_item_text(items, selected_index, edit_text) IN
       IF r.saves
       THEN \E ok \in WriteOutcomes :
              IF ok
              THEN Handled("Enter", "", r.items, selected_index, "Selection",
                           <<>>, 0, should_quit, "ok", TRUE)
              ELSE Handled("Enter", "", r.items, selected_index, mode,
                           edit_text, edit_cursor, should_quit, "err", FALSE)
       ELSE Handled("Enter", "", r.items, selected_index, "Selection",
                    <<>>, 0, should_quit, "ok", FALSE)

\* App::remove_edit_text_char_at: the text it leaves
remove_edit_text_char_at(text, char_index) ==
    IF char_index < CharCount(text)
    THEN StringDrain(text, CharIndices(text)[char_index + 1],
                     NthBytePos(text, char_index + 1))
    ELSE text

TuiEditLeft == TuiEdit /\ EditLeft
TuiEditRight == TuiEdit /\ EditRight
TuiEditHome == TuiEdit /\ EditHome
TuiEditEnd == TuiEdit /\ EditEnd
TuiEditChar == TuiEdit /\ \E c \in CharKeys : EditChar(c)

TuiEditBackspace ==
    /\ TuiEdit
    /\ Buffer("Backspace", "",
              remove_edit_text_char_at(edit_text, SaturatingDec(edit_cursor)),
              SaturatingDec(edit_cursor))

TuiEditDelete ==
    /\ TuiEdit
    /\ Buffer("Delete", "", remove_edit_text_char_at(edit_text, edit_cursor),
              edit_cursor)

TuiEditOther ==
    /\ TuiEdit
    /\ \E k \in Keys : k \notin (EditKeys \cup {Char(c) : c \in CharKeys})
    /\ Ignored("_")

-----------------------------------------------------------------------------
(* App of tui/mod.rs: handle_delete_mode_key *)

TuiDelete == Running /\ variant = "tui" /\ mode = "Delete"

TuiDelConfirm ==
    /\ TuiDelete
    /\ LET r == delete_item(items, selected_index)
           sel == IF selected_index >= Len(r.items)
                  THEN SaturatingDec(selected_index) ELSE selected_index
       IN  IF r.saves
           THEN \E ok \in WriteOutcomes :
                  Handled("y", "", r.items,
                          IF ok THEN sel ELSE selected_index,
                          IF ok THEN "Selection" ELSE mode,
                          edit_text, edit_cursor, should_quit, Result(ok), ok)
           ELSE Handled("y", "", r.items, sel, "Selection", edit_text,
                        edit_cursor, should_quit, "ok", FALSE)

TuiDelEsc ==
    /\ TuiDelete
    /\ Handled("Esc", "", items, selected_index, "Selection", edit_text,
               edit_cursor, should_quit, "ok", FALSE)

TuiDelOther ==
    /\ TuiDelete
    /\ \E k \in Keys : k \notin DeleteKeys
    /\ Ignored("_")

-----------------------------------------------------------------------------
(* The end of the session: run_app has returned (or a panic unwinds) and the
   App is dropped *)

Dropped == last.arm = "drop"

\* the list is saved once more; `let _ =` discards the result of the write
Drop ==
    /\ should_quit \/ crashed
    /\ ~Dropped
    /\ \E ok \in WriteOutcomes :
         /\ disk' = IF ok THEN Encoded(items) ELSE disk
         /\ last' = [arm |-> "drop", ch |-> "", prev |-> last.arm, mode |-> mode,
                     selected_index |-> selected_index, len |-> Len(items),
                     result |-> Result(ok), wrote |-> ok]
    /\ UNCHANGED <<variant, items, selected_index, mode, edit_text, edit_cursor,
                   should_quit, crashed, nkeys, c_pc, c_list, c_md, c_out, c_in>>

\* impl Drop for App
MainDrop == variant = "main" /\ Drop

\* impl Drop for TodoApp, the field of the tui App
TuiDrop == variant = "tui" /\ Drop

-----------------------------------------------------------------------------
(* The session *)

\* no content was put together from parts
NoParts == [header |-> [text |-> <<>>, valid |-> FALSE], eol |-> <<>>, lines |-> <<>>]

\* the codec scenario is not run
CodecIdle ==
    /\ c_pc = "idle"
    /\ c_list = [date |-> Today, items |-> <<>>]
    /\ c_md = <<>>
    /\ c_out = [ok |-> FALSE, err |-> "none"]
    /\ c_in = NoParts

\* App::new on the list load_or_create_todo_list returned; nothing of this
\* session has been written yet
Init ==
    /\ variant \in {"main", "tui"}
    /\ items \in InitialLists
    /\ selected_index = 0
    /\ mode = "Selection"
    /\ edit_text = <<>>
    /\ edit_cursor = 0
    /\ should_quit = FALSE
    /\ disk = Encoded(items)
    /\ crashed = FALSE
    /\ last = [arm |-> "none", ch |-> "", prev |-> "none", mode |-> "Selection",
               selected_index |-> 0, len |-> Len(items),
               result |-> "ok", wrote |-> FALSE]
    /\ nkeys = 0
    /\ CodecIdle

Next ==
    \/ MainSelQuit \/ MainSelUp \/ MainSelDown \/ MainSelToggle
    \/ MainSelInsert \/ MainSelEnter \/ MainSelTab \/ MainSelBackTab
    \/ MainSelDelete \/ MainSelOther
    \/ MainEditEsc \/ MainEditEnter \/ MainEditLeft \/ MainEditRight
    \/ MainEditBackspace \/ MainEditDelete \/ MainEditHome \/ MainEditEnd
    \/ MainEditChar \/ MainEditOther
    \/ MainDelConfirm \/ MainDelEsc \/ MainDelOther
    \/ TuiSelQuit \/ TuiSelUp \/ TuiSelDown \/ TuiSelToggle
    \/ TuiSelInsert \/ TuiSelEnter \/ TuiSelTab \/ TuiSelBackTab
    \/ TuiSelDelete \/ TuiSelOther
    \/ TuiEditEsc \/ TuiEditEnter \/ TuiEditLeft \/ TuiEditRight
    \/ TuiEditBackspace \/ TuiEditDelete \/ TuiEditHome \/ TuiEditEnd
    \/ TuiEditChar \/ TuiEditOther
    \/ TuiDelConfirm \/ TuiDelEsc \/ TuiDelOther
    \/ MainDrop \/ TuiDrop

Spec == Init /\ [][Next]_vars

\* the sessions in which every fs::write succeeds
NextSaved == Next /\ last'.result # "err"

SpecSaved == Init /\ [][NextSaved]_vars

-----------------------------------------------------------------------------
(* The codec scenario: a list is encoded, the content is decoded *)

\* the characters of an item text: a letter, a space, a carriage return, a newline
CodecChars == {"a", " ", "\r", "\n"}

CodecTexts == UNION {[1..n -> CodecChars] : n \in 0..MaxCodecLen}

CodecDates == {Today, [y |-> 1999, m |-> 12, d |-> 31]}

CodecItems ==
    {TodoItem(t, c, k) : t \in CodecTexts, c \in BOOLEAN, k \in 0..MaxCodecIndent}

CodecLists ==
    {[date |-> dt, items |-> its] :
        dt \in CodecDates, its \in UNION {[1..n -> CodecItems] : n \in 0..MaxCodecItems}}

\* no key is read in the codec scenario
AppIdle ==
    /\ variant = "main"
    /\ items = <<>>
    /\ selected_index = 0
    /\ mode = "Selection"
    /\ edit_text = <<>>
    /\ edit_cursor = 0
    /\ should_quit = FALSE
    /\ disk = <<>>
    /\ crashed = FALSE
    /\ last = [arm |-> "none", ch |-> "", prev |-> "none", mode |-> "Selection",
               selected_index |-> 0, len |-> 0, result |-> "ok", wrote |-> FALSE]
    /\ nkeys = 0

CodecInit ==
    /\ AppIdle
    /\ c_pc = "list"
    /\ c_list \in CodecLists
    /\ c_md = <<>>
    /\ c_out = [ok |-> FALSE, err |-> "none"]
    /\ c_in = NoParts

\* content = list.to_markdown()
Encode ==
    /\ c_pc = "list"
    /\ c_md' = to_markdown(c_list)
    /\ c_pc' = "encoded"
    /\ UNCHANGED <<c_list, c_out, c_in>>
    /\ UNCHANGED appVars

\* TodoList::from_markdown(&content)
Decode ==
    /\ c_pc = "encoded"
    /\ c_out' = from_markdown(c_md)
    /\ c_pc' = "decoded"
    /\ UNCHANGED <<c_list, c_md, c_in>>
    /\ UNCHANGED appVars

CodecNext == Encode \/ Decode

SpecCodec == CodecInit /\ [][CodecNext]_vars

NoNewline(text) == \A i \in 1..Len(text) : text[i] # "\n"

EndsWithCR(text) == text # <<>> /\ text[Len(text)] = "\r"

-----------------------------------------------------------------------------
(* The decode scenario: a content put together from a header line and item
   lines is decoded *)

\* the most lines that follow the header line
MaxDecodeLines == 3

\* a header line, and whether it is "# TODO " followed by a date that
\* NaiveDate::parse_from_str takes
Header(text, valid) == [text |-> text, valid |-> valid]

DecodeHeaders ==
    { Header(HeaderPrefix \o FormatDate(Today), TRUE),
      Header(HeaderPrefix \o <<"2", "0", "2", "5", "-", "8", "-", "1", "4">>, TRUE),
      Header(HeaderPrefix \o <<" ">> \o FormatDate(Today), TRUE),
      Header(HeaderPrefix \o FormatDate([y |-> 2025, m |-> 2, d |-> 30]), FALSE),
      Header(HeaderPrefix \o FormatDate(Today) \o <<" ">>, FALSE),
      Header(HeaderPrefix, FALSE),
      Header(<<"#", "T", "O", "D", "O", " ">> \o FormatDate(Today), FALSE),
      Header(<<" ">> \o HeaderPrefix \o FormatDate(Today), FALSE),
      Header(<<>>, FALSE) }

\* the line ending of the content
DecodeEols == {<<"\n">>, <<"\r", "\n">>}

\* the whitespace a line starts with
DecodeLeads == {<<>>, <<" ", " ", " ">>, <<"\t", "\t">>}

\* what follows the leading whitespace
DecodeBodies ==
    { <<"*", " ", "[", "x", "]", " ", "a">>,
      <<"*", " ", "[", " ", "]", " ">>,
      <<"*", " ", "[", "x", "]">>,
      <<"-", " ", "a">>,
      <<>> }

DecodeLines == {[lead |-> l, body |-> b] : l \in DecodeLeads, b \in DecodeBodies}

\* the header alone, without a line ending, or the header and up to
\* MaxDecodeLines lines, each with the line ending
DecodeParts ==
    {[header |-> h, eol |-> <<>>, lines |-> <<>>] : h \in DecodeHeaders}
    \cup {[header |-> h, eol |-> e, lines |-> ls] :
             h \in DecodeHeaders, e \in DecodeEols,
             ls \in UNION {[1..n -> DecodeLines] : n \in 0..MaxDecodeLines}}

\* the content: the header line and the lines, each with the line ending
Content(parts) ==
    parts.header.text \o parts.eol
    \o Concat([i \in 1..Len(parts.lines) |->
                  parts.lines[i].lead \o parts.lines[i].body \o parts.eol])

DecodeInit ==
    /\ AppIdle
    /\ c_pc = "content"
    /\ c_in \in DecodeParts
    /\ c_md = Content(c_in)
    /\ c_list = [date |-> Today, items |-> <<>>]
    /\ c_out = [ok |-> FALSE, err |-> "none"]

\* TodoList::from_markdown(&content)
DecodeContent ==
    /\ c_pc = "content"
    /\ c_out' = from_markdown(c_md)
    /\ c_pc' = "parsed"
    /\ UNCHANGED <<c_list, c_md, c_in>>
    /\ UNCHANGED appVars

DecodeNext == DecodeContent

SpecDecode == DecodeInit /\ [][DecodeNext]_vars

\* C19: from_markdown fails exactly when the header is missing or malformed
\* (empty content, first line not starting with "# TODO ", or a date after
\* it that does not parse); with a valid header it succeeds whatever the
\* other lines hold
C19_FailsExactlyOnHeader == c_pc = "parsed" => (c_out.ok <=> c_in.header.valid)

\* a content with a valid header, a bullet line at line index 1, a
\* non-bullet line and a blank line was decoded
C19_Witness ==
    /\ c_pc = "parsed"
    /\ c_out.ok
    /\ c_in.eol = <<"\r", "\n">>
    /\ Len(c_in.lines) = 3
    /\ c_in.lines[1].body = <<"*", " ", "[", "x", "]", " ", "a">>
    /\ c_in.lines[2].body = <<"-", " ", "a">>
    /\ c_in.lines[3] = [lead |-> <<"\t", "\t">>, body |-> <<>>]

-----------------------------------------------------------------------------
(* The claims about the key-event state machine *)

\* the step is the handling of one key event
KeyStep == nkeys' = nkeys + 1

\* C2: in every reachable state, in all three modes and both App variants,
\* 0 <= selected_index <= todo_list.items.len()
C2_SelectedIndexInRange == selected_index >= 0 /\ selected_index <= Len(items)

\* Down has moved the selection onto the slot one past the last of three items
C2_Witness ==
    /\ last.arm = "Down"
    /\ last.selected_index = 2
    /\ Len(items) = 3
    /\ selected_index = Len(items)

\* C3: in every reachable state 0 <= edit_cursor <= number of characters of
\* edit_text
C3_CursorInRange == edit_cursor >= 0 /\ edit_cursor <= CharCount(edit_text)

\* the two-byte character was typed at the end of a two-character buffer
C3_Witness ==
    /\ mode = "Edit"
    /\ last.arm = "Char"
    /\ last.ch = UUML
    /\ CharCount(edit_text) = 3
    /\ edit_cursor = 3

\* C4 as stated: when the write fails during a confirm-edit or a
\* confirm-delete, the transition still completes: the mode becomes Selection
C4_FailedWriteCompletesTransition ==
    (/\ last.result = "err"
     /\ \/ last.arm = "Enter" /\ last.mode = "Edit"
        \/ last.arm = "y" /\ last.mode = "Delete")
    => mode = "Selection"

\* the arms that mutate an existing item
MutatingArm(md, arm) ==
    \/ md = "Selection" /\ arm \in {"x", "Tab", "BackTab"}
    \/ md = "Edit" /\ arm \in {"Enter", "Esc"}
    \/ md = "Delete" /\ arm = "y"

\* C5 as stated: a key handled where selected_index >= items.len() never
\* crashes, and the arms that mutate an existing item leave the list unchanged
C5_OutOfRangeNeverCrashes ==
    [][(selected_index >= Len(items) /\ KeyStep)
       => (~crashed' /\ (MutatingArm(mode, last'.arm) => items' = items))]_vars

\* C6: Enter in Edit mode while selected_index >= items.len() returns the mode
\* to Selection, mutates no item and does not crash
C6_OutOfRangeConfirmIsNoOp ==
    [][(mode = "Edit" /\ selected_index >= Len(items) /\ KeyStep /\ last'.arm = "Enter")
       => (mode' = "Selection" /\ items' = items /\ ~crashed' /\ last'.result = "ok")]_vars

\* an edit was confirmed on the slot one past the last item of a non-empty list
C6_Witness ==
    /\ last.arm = "Enter"
    /\ last.mode = "Edit"
    /\ last.len > 0
    /\ last.selected_index >= last.len
    /\ mode = "Selection"

\* C7 as stated: 'y' in Delete mode with selected_index = i < items.len()
\* removes exactly item i, sets the mode to Selection and selected_index to
\* min(i, new_len - 1), or to 0 if the list became empty
C7_ConfirmDelete ==
    [][(mode = "Delete" /\ selected_index < Len(items) /\ KeyStep /\ last'.arm = "y")
       => (/\ items' = VecRemove(items, selected_index)
           /\ mode' = "Selection"
           /\ selected_index' = IF Len(items') = 0 THEN 0
                                ELSE Min(selected_index, Len(items') - 1))]_vars

C9_InsertOpensEmptyEdit ==
    [][(mode = "Selection" /\ KeyStep /\ last'.arm = "i" /\ last'.result = "ok")
       => (/\ mode' = "Edit"
           /\ Len(items') = Len(items) + 1
           /\ selected_index' < Len(items')
           /\ At(items', selected_index').text = <<>>
           /\ ~At(items', selected_index').completed
           /\ VecRemove(items', selected_index') = items
           /\ edit_text' = <<>>
           /\ edit_cursor' = 0)]_vars

\* C10 as stated: the new item has the indent of the item before the
\* insertion position if there is one, else of the item at selected_index,
\* else (empty list) 0
C10_InsertInheritsIndent ==
    [][(mode = "Selection" /\ KeyStep /\ last'.arm = "i" /\ last'.result = "ok")
       => (/\ selected_index' < Len(items')
           /\ At(items', selected_index').indent_level =
                IF selected_index > 0 THEN At(items, selected_index - 1).indent_level
                ELSE IF items # <<>> THEN At(items, selected_index).indent_level
                ELSE 0)]_vars

\* C11 as stated: Enter in Selection mode with selected_index = items.len()
\* appends a new empty item with the last item's indent (0 for an empty
\* list) and opens Edit mode on it
C11_EnterAtVirtualSlotAppends ==
    [][(mode = "Selection" /\ selected_index = Len(items) /\ KeyStep /\ last'.arm = "Enter")
       => (/\ mode' = "Edit"
           /\ items' = Append(items,
                  TodoItem(<<>>, FALSE,
                           IF items = <<>> THEN 0 ELSE At(items, Len(items) - 1).indent_level))
           /\ selected_index' = Len(items))]_vars

\* C12: Enter in Selection mode with selected_index = items.len() does not
\* enter Edit mode: the mode stays Selection and the item count is unchanged
C12_EnterAtVirtualSlotIsIgnored ==
    [][(mode = "Selection" /\ selected_index = Len(items) /\ KeyStep /\ last'.arm = "Enter")
       => (mode' = "Selection" /\ Len(items') = Len(items) /\ items' = items)]_vars

\* Enter was pressed on the slot one past the last item of a non-empty list
C12_Witness ==
    /\ last.arm = "Enter"
    /\ last.mode = "Selection"
    /\ last.len > 0
    /\ last.selected_index = last.len
    /\ mode = "Selection"
    /\ Len(items) = last.len

\* C13 as stated: Enter in Edit mode with selected_index = i < items.len()
\* sets items[i].text to the edit buffer's text, changes nothing else of
\* the list and sets the mode to Selection
C13_ConfirmEdit ==
    [][(mode = "Edit" /\ selected_index < Len(items) /\ KeyStep /\ last'.arm = "Enter")
       => (/\ items' = SetText(items, selected_index, edit_text)
           /\ mode' = "Selection")]_vars

\* C14: Enter in Selection mode with selected_index = i < items.len() opens
\* Edit mode with the buffer equal to items[i].text and the cursor at its
\* character count, the list unchanged; and an Enter that follows at once
\* leaves the list exactly as it was
C14_EnterOpensEditOnItem ==
    [][/\ (mode = "Selection" /\ selected_index < Len(items) /\ KeyStep /\ last'.arm = "Enter")
          => (/\ mode' = "Edit"
              /\ edit_text' = At(items, selected_index).text
              /\ edit_cursor' = CharCount(At(items, selected_index).text)
              /\ items' = items
              /\ selected_index' = selected_index)
       /\ (/\ mode = "Edit" /\ last.arm = "Enter" /\ last.mode = "Selection"
           /\ KeyStep /\ last'.arm = "Enter")
          => (items' = items /\ ~crashed')]_vars

\* Enter, Enter on an item whose text holds a two-byte character
C14_Witness ==
    /\ nkeys = 2
    /\ last.arm = "Enter"
    /\ last.prev = "Enter"
    /\ last.mode = "Edit"
    /\ last.selected_index < last.len
    /\ At(items, selected_index).text = <<"q", UUML>>

\* the characters of t without the one at character offset k (from 0)
WithoutCharAt(t, k) == SubSeq(t, 1, k) \o SubSeq(t, k + 2, Len(t))

\* C15 as stated: in Edit mode Backspace removes exactly the character before
\* the cursor and decrements the cursor, and changes nothing at cursor 0;
\* Delete removes exactly the character at the cursor and keeps the cursor,
\* and changes nothing at the end of the text
C15_BackspaceAndDelete ==
    [][/\ (mode = "Edit" /\ KeyStep /\ last'.arm = "Backspace")
          => /\ ~crashed'
             /\ IF edit_cursor > 0
                THEN /\ edit_text' = WithoutCharAt(edit_text, edit_cursor - 1)
                     /\ edit_cursor' = edit_cursor - 1
                ELSE edit_text' = edit_text /\ edit_cursor' = edit_cursor
       /\ (mode = "Edit" /\ KeyStep /\ last'.arm = "Delete")
          => /\ ~crashed'
             /\ edit_cursor' = edit_cursor
             /\ edit_text' = IF edit_cursor < Len(edit_text)
                             THEN WithoutCharAt(edit_text, edit_cursor)
                             ELSE edit_text]_vars

\* C16: in Edit mode, typing the character ch with the cursor at c on the
\* text t yields t[0..c] + ch + t[c..] counted in characters and the cursor
\* c + 1, for one-byte and two-byte characters alike
C16_TypeCharacter ==
    [][(mode = "Edit" /\ KeyStep /\ last'.arm = "Char")
       => (/\ ~crashed'
           /\ edit_text' = SubSeq(edit_text, 1, edit_cursor) \o <<last'.ch>>
                           \o SubSeq(edit_text, edit_cursor + 1, Len(edit_text))
           /\ edit_cursor' = edit_cursor + 1)]_vars

\* the two-byte character was typed at cursor 1, between 'q' and the two-byte
\* character of the text
C16_Witness ==
    /\ mode = "Edit"
    /\ last.arm = "Char"
    /\ last.ch = UUML
    /\ edit_text = <<"q", UUML, UUML>>
    /\ edit_cursor = 2

\* the arms that are structural edits of an existing item
StructuralArm(md, arm) ==
    \/ md = "Selection" /\ arm \in {"x", "Tab", "BackTab"}
    \/ md = "Edit" /\ arm = "Enter"
    \/ md = "Delete" /\ arm = "y"

\* the arms that only move the selection or the cursor
NavigationalArm(md, arm) ==
    \/ md = "Selection" /\ arm \in {"Up", "Down"}
    \/ md = "Edit" /\ arm \in {"Left", "Right", "Home", "End"}

\* C17: a structural edit that changes the list saves within its handler
\* (the write took place, or its failure is what the handler returns), and
\* after a write that succeeded the file holds the encoded new list; a
\* navigational event never writes
C17_StructuralEditsSave ==
    [][/\ (KeyStep /\ StructuralArm(mode, last'.arm) /\ items' # items)
          => /\ last'.wrote \/ last'.result = "err"
             /\ last'.wrote => disk' = Encoded(items')
       /\ (KeyStep /\ NavigationalArm(mode, last'.arm))
          => (~last'.wrote /\ last'.result = "ok" /\ disk' = disk /\ items' = items)]_vars

\* an indent was saved: the file holds the list with the deeper item
C17_Witness ==
    /\ variant = "tui"
    /\ last.arm = "Tab"
    /\ last.wrote
    /\ last.selected_index = 0
    /\ At(items, 0).indent_level = 2
    /\ disk = Encoded(items)

\* C18 as stated, over the sessions in which every write succeeds: after a
\* key event that changed the item list and left the app in Selection mode
\* the file holds to_markdown() of the list in memory; and once the session
\* has ended the file holds the encoding of the final list
C18_FileFollowsList ==
    [][/\ (KeyStep /\ items' # items /\ mode' = "Selection")
          => disk' = Encoded(items')
       /\ Dropped' => disk' = Encoded(items')]_vars

\* the number of spaces s starts with
RECURSIVE LeadingSpaces(_)
LeadingSpaces(s) ==
    IF s # <<>> /\ Head(s) = " " THEN 1 + LeadingSpaces(Tail(s)) ELSE 0

\* the item C20 gives for a line (<<>>: the line yields no item)
ItemOfLine(line) ==
    IF ~StartsWith(line.body, <<"*", " ">>) THEN <<>>
    ELSE LET content == Skip(line.body, 2)
             indent == LeadingSpaces(line.lead) \div 2
         IN  IF StartsWith(content, <<"[", "x", "]", " ">>)
             THEN <<[text |-> Skip(content, 4), completed |-> TRUE, indent_level |-> indent]>>
             ELSE IF StartsWith(content, <<"[", " ", "]", " ">>)
             THEN <<[text |-> Skip(content, 4), completed |-> FALSE, indent_level |-> indent]>>
             ELSE <<[text |-> content, completed |-> FALSE, indent_level |-> indent]>>

\* the items of the lines at line index >= 2, in order
ItemsOfLines(lines) ==
    Concat([i \in 1..(IF Len(lines) > 1 THEN Len(lines) - 1 ELSE 0) |->
               ItemOfLine(lines[i + 1])])

\* C20 as stated: with a valid header the decoded items are, in order, the
\* lines at line index >= 2 that start with "* " after their leading
\* whitespace, each with indent_level = floor(leading spaces / 2),
\* completed iff the content starts with "[x] ", and the text after the
\* checkbox prefix (the whole content if there is none)
C20_DecodedItems ==
    (c_pc = "parsed" /\ c_in.header.valid) => (c_out.ok /\ c_out.items = ItemsOfLines(c_in.lines))


-----------------------------------------------------------------------------
(* The encode scenario: lists of several items, with texts longer than a
   narrow terminal line, are rendered by to_markdown *)

MaxEncodeItems == 2

EncodeTexts ==
    {<<>>, <<"a", " ", "b">>,
     <<"t", "a", "k", "e", " ", "o", "u", "t", " ", "t", "r", "a", "s", "h">>}

EncodeItems ==
    {TodoItem(t, c, k) : t \in EncodeTexts, c \in BOOLEAN, k \in {0, 1, 3}}

EncodeLists ==
    {[date |-> dt, items |-> its] :
        dt \in CodecDates, its \in UNION {[1..n -> EncodeItems] : n \in 0..MaxEncodeItems}}

EncodeInit ==
    /\ AppIdle
    /\ c_pc = "list"
    /\ c_list \in EncodeLists
    /\ c_md = <<>>
    /\ c_out = [ok |-> FALSE, err |-> "none"]
    /\ c_in = NoParts

SpecEncode == EncodeInit /\ [][CodecNext]_vars

\* the ten characters YYYY-MM-DD of the dates of the scenario
DateText(date) ==
    IF date = Today
    THEN <<"2", "0", "2", "5", "-", "0", "8", "-", "1", "4">>
    ELSE <<"1", "9", "9", "9", "-", "1", "2", "-", "3", "1">>

Spaces(n) == [i \in 1..n |-> " "]

ExpectedLine(item) ==
    Spaces(2 * item.indent_level) \o <<"*", " ">>
    \o (IF item.completed THEN <<"[", "x", "]", " ">> ELSE <<"[", " ", "]", " ">>)
    \o item.text \o <<"\n">>

RECURSIVE ExpectedLines(_)
ExpectedLines(its) ==
    IF its = <<>> THEN <<>> ELSE ExpectedLine(Head(its)) \o ExpectedLines(Tail(its))

\* C21: the rendered file is "# TODO YYYY-MM-DD", an empty line, and then one
\* line per item in list order: twice indent_level spaces, "* ", "[x] " or
\* "[ ] ", the text and a newline, with nothing after the last line
C21_MarkdownLayout ==
    (c_pc \in {"encoded", "decoded"}) =>
        c_md = <<"#", " ", "T", "O", "D", "O", " ">> \o DateText(c_list.date)
               \o <<"\n", "\n">> \o ExpectedLines(c_list.items)

C21_Witness ==
    /\ c_pc = "encoded"
    /\ Len(c_list.items) = 2
    /\ c_list.items[1].completed /\ c_list.items[1].indent_level = 3
    /\ Len(c_list.items[1].text) = 14
    /\ ~c_list.items[2].completed /\ c_list.items[2].indent_level = 0
    /\ c_list.items[2].text = <<"a", " ", "b">>
    /\ c_list.date # Today


-----------------------------------------------------------------------------
(* Key-event claims, continued *)

\* C22: whenever the mode is Delete or Edit, selected_index names an existing
\* item (selected_index < items.len()); in particular 'd' on the slot one past
\* the end does not open the delete confirmation
C22_ModalTargetExists ==
    (~crashed /\ mode \in {"Delete", "Edit"}) => selected_index < Len(items)

\* C23: Esc in Delete mode returns to Selection and changes neither the list,
\* nor selected_index, nor the edit buffer, nor the file; every key other than
\* 'y' and Esc in Delete mode leaves the whole state as it was
C23_CancelDelete ==
    [][/\ (mode = "Delete" /\ KeyStep /\ last'.arm = "Esc")
          => /\ mode' = "Selection"
             /\ last'.result = "ok" /\ ~last'.wrote
             /\ UNCHANGED <<items, selected_index, edit_text, edit_cursor, disk,
                            should_quit, crashed>>
       /\ (mode = "Delete" /\ KeyStep /\ last'.arm = "_")
          => /\ last'.result = "ok" /\ ~last'.wrote
             /\ UNCHANGED <<items, selected_index, mode, edit_text, edit_cursor,
                            disk, should_quit, crashed>>]_vars

C23_Witness ==
    /\ last.arm = "Esc" /\ last.mode = "Delete" /\ last.prev = "_"
    /\ mode = "Selection"
    /\ Len(items) = 3
    /\ selected_index = 1

\* C24: in Selection mode Down adds 1 to selected_index exactly when
\* selected_index < items.len(), Up subtracts 1 exactly when
\* selected_index > 0, and neither changes the list or the mode
C24_UpDown ==
    [][/\ (mode = "Selection" /\ KeyStep /\ last'.arm = "Down")
          => /\ selected_index' = IF selected_index < Len(items)
                                  THEN selected_index + 1 ELSE selected_index
             /\ UNCHANGED <<items, mode>>
       /\ (mode = "Selection" /\ KeyStep /\ last'.arm = "Up")
          => /\ selected_index' = IF selected_index > 0
                                  THEN selected_index - 1 ELSE selected_index
             /\ UNCHANGED <<items, mode>>]_vars

C24_Witness ==
    /\ last.arm = "Up" /\ last.prev = "Down" /\ last.mode = "Selection"
    /\ last.selected_index = last.len
    /\ Len(items) = 3
    /\ selected_index = 2
    /\ mode = "Selection"

\* C25: with selected_index = i < items.len() the indent key adds exactly 1 to
\* items[i].indent_level and the outdent key sets it to
\* max(0, indent_level - 1); no indent_level is ever negative, and no other
\* item, text or completed flag changes
C25_IndentOutdent ==
    [][/\ \A k \in 1..Len(items') : items'[k].indent_level >= 0
       /\ (mode = "Selection" /\ selected_index < Len(items) /\ KeyStep
           /\ last'.arm = "Tab")
          => items' = [items EXCEPT ![selected_index + 1].indent_level = @ + 1]
       /\ (mode = "Selection" /\ selected_index < Len(items) /\ KeyStep
           /\ last'.arm = "BackTab")
          => items' = [items EXCEPT ![selected_index + 1].indent_level =
                                        IF @ - 1 > 0 THEN @ - 1 ELSE 0]]_vars

C25_Witness ==
    /\ last.arm = "BackTab" /\ last.prev = "BackTab" /\ last.mode = "Selection"
    /\ last.selected_index = 0
    /\ Len(items) = 3
    /\ items[1].indent_level = 0
    /\ items[1].text = ItemA.text
    /\ items[3].indent_level = 2

\* C26: with selected_index = i < items.len() the toggle key flips
\* items[i].completed and changes nothing else of the list, selected_index or
\* the mode; pressed twice at the start of a session it gives back the list
\* the session started with
C26_Toggle ==
    [][/\ (mode = "Selection" /\ selected_index < Len(items) /\ KeyStep
           /\ last'.arm = "x")
          => /\ items' = [items EXCEPT ![selected_index + 1].completed = ~@]
             /\ UNCHANGED <<selected_index, mode>>
       /\ (nkeys' = 2 /\ last'.arm = "x" /\ last'.prev = "x"
           /\ last'.selected_index < last'.len)
          => items' \in InitialLists]_vars

C26_Witness ==
    /\ nkeys = 2 /\ last.arm = "x" /\ last.prev = "x"
    /\ last.selected_index = 0
    /\ items = <<ItemA, ItemB, ItemC>>
    /\ mode = "Selection"


-----------------------------------------------------------------------------
(* The core scenario: one index-bearing operation of TodoApp is called on a
   list, with an index inside or outside of it *)

CoreTexts == {<<>>, <<"n", "e", "w">>}

\* `index as usize`: every index from 0 up to two past the end
CoreIndexes(its) == 0..(Len(its) + 1)

CoreInit ==
    /\ AppIdle
    /\ c_pc = "core"
    /\ c_list \in {l \in EncodeLists : l.date = Today}
    /\ c_md = <<>>
    /\ c_out = [op |-> "none", index |-> 0, before |-> <<>>, result |-> "ok",
                wrote |-> FALSE]
    /\ c_in = NoParts

\* the call of one operation: the mutation, then save_todo_list()? where the
\* operation saves
CoreCall(op, index, r) ==
    /\ c_pc = "core"
    /\ \E ok \in WriteOutcomes :
         /\ c_out' = [op |-> op, index |-> index, before |-> c_list.items,
                      result |-> IF r.saves THEN Result(ok) ELSE "ok",
                      wrote |-> r.saves /\ ok]
         /\ c_md' = IF r.saves /\ ok
                    THEN to_markdown([date |-> Today, items |-> r.items])
                    ELSE c_md
    /\ c_list' = [c_list EXCEPT !.items = r.items]
    /\ c_pc' = "called"
    /\ UNCHANGED c_in
    /\ UNCHANGED appVars

CoreToggle ==
    \E i \in CoreIndexes(c_list.items) :
        CoreCall("toggle_item_completed", i, toggle_item_completed(c_list.items, i))

CoreUpdateText ==
    \E i \in CoreIndexes(c_list.items), t \in CoreTexts :
        CoreCall("update_item_text", i, update_item_text(c_list.items, i, t))

CoreIndentLeft ==
    \E i \in CoreIndexes(c_list.items) :
        CoreCall("indent_item_left", i, indent_item_left(c_list.items, i))

CoreIndentRight ==
    \E i \in CoreIndexes(c_list.items) :
        CoreCall("indent_item_right", i, indent_item_right(c_list.items, i))

CoreDelete ==
    \E i \in CoreIndexes(c_list.items) :
        CoreCall("delete_item", i, delete_item(c_list.items, i))

CoreNext == CoreToggle \/ CoreUpdateText \/ CoreIndentLeft \/ CoreIndentRight \/ CoreDelete

SpecCore == CoreInit /\ [][CoreNext]_vars

\* C27: toggle_item_completed, update_item_text, indent_item_left,
\* indent_item_right and delete_item called with index >= items.len() return
\* Ok and leave the list as it was
C27_OutOfRangeIsIgnored ==
    (c_pc = "called" /\ c_out.index >= Len(c_out.before)) =>
        (c_out.result = "ok" /\ c_list.items = c_out.before /\ ~c_out.wrote)

C27_Witness ==
    /\ c_pc = "called"
    /\ c_out.op = "delete_item"
    /\ Len(c_out.before) = 2
    /\ c_out.index = 2
    /\ c_out.result = "ok"


-----------------------------------------------------------------------------
(* wrap_todo_item_text, the same function in main.rs and tui/mod.rs: lengths
   are byte lengths and slices are byte slices, as in the code *)

CURSOR == "|"

RECURSIVE SplitWhitespace(_, _)
\* str::split_whitespace: the maximal runs of non-whitespace characters;
\* acc is the word being collected
SplitWhitespace(s, acc) ==
    IF s = <<>> THEN (IF acc = <<>> THEN <<>> ELSE <<acc>>)
    ELSE IF IsWhitespace(Head(s))
    THEN (IF acc = <<>> THEN <<>> ELSE <<acc>>) \o SplitWhitespace(Tail(s), <<>>)
    ELSE SplitWhitespace(Tail(s), acc \o <<Head(s)>>)

\* &s[..n], called where n is a character boundary
SliceTo(s, n) == SubSeq(s, 1, CharsBefore(s, n))

\* &s[n..], called where n is a character boundary
SliceFrom(s, n) == SubSeq(s, CharsBefore(s, n) + 1, Len(s))

RECURSIVE BreakWord(_, _, _)
\* while remaining.len() > text_width { push &remaining[..text_width] ... }:
\* slicing inside a character panics
BreakWord(lines, remaining, text_width) ==
    IF ByteLen(remaining) > text_width
    THEN IF ~IsCharBoundary(remaining, text_width)
         THEN [panic |-> TRUE, lines |-> lines, remaining |-> remaining]
         ELSE BreakWord(Append(lines, SliceTo(remaining, text_width)),
                        SliceFrom(remaining, text_width), text_width)
    ELSE [panic |-> FALSE, lines |-> lines, remaining |-> remaining]

\* the body of `for word in words`
WrapWord(st, word, text_width) ==
    IF st.panic THEN st
    ELSE IF ByteLen(word) > text_width
    THEN LET flushed == IF st.current_line # <<>>
                        THEN Append(st.lines, st.current_line) ELSE st.lines
             b == BreakWord(flushed, word, text_width)
         IN [lines |-> b.lines,
             current_line |-> IF b.remaining # <<>> THEN b.remaining ELSE <<>>,
             panic |-> b.panic]
    ELSE IF ByteLen(st.current_line) + ByteLen(word)
            + (IF st.current_line = <<>> THEN 0 ELSE 1) > text_width
    THEN IF st.current_line # <<>>
         THEN [st EXCEPT !.lines = Append(@, st.current_line), !.current_line = word]
         ELSE [st EXCEPT !.current_line = word]
    ELSE IF st.current_line = <<>>
         THEN [st EXCEPT !.current_line = word]
         ELSE [st EXCEPT !.current_line = @ \o <<" ">> \o word]

RECURSIVE WrapWords(_, _, _)
WrapWords(st, words, text_width) ==
    IF words = <<>> THEN st
    ELSE WrapWords(WrapWord(st, Head(words), text_width), Tail(words), text_width)

\* the result is [panic, lines], lines being the Vec<(String, bool)>
wrap_todo_item_text(item, available_width, is_selected, edit_text_, edit_cursor_, is_editing) ==
    LET indent == Repeat(<<" ", " ">>, item.indent_level)
        checkbox == IF item.completed THEN <<"[", "x", "]">> ELSE <<"[", " ", "]">>
        prefix == indent \o <<"*", " ">> \o checkbox \o <<" ">>
        prefix_len == ByteLen(prefix)
        text == IF is_editing /\ is_selected
                THEN StringInsert(edit_text_, NthBytePos(edit_text_, edit_cursor_), CURSOR)
                ELSE item.text
    IN
    IF available_width <= prefix_len
    THEN [panic |-> FALSE, lines |-> <<<<prefix \o text, TRUE>>>>]
    ELSE
    LET text_width == available_width - prefix_len
        words == SplitWhitespace(text, <<>>)
    IN
    IF words = <<>>
    THEN [panic |-> FALSE, lines |-> <<<<prefix, TRUE>>>>]
    ELSE
    LET st == WrapWords([lines |-> <<>>, current_line |-> <<>>, panic |-> FALSE],
                        words, text_width)
        lines == IF st.current_line # <<>>
                 THEN Append(st.lines, st.current_line) ELSE st.lines
        continuation_prefix == indent \o <<" ", " ", " ">>
    IN
    IF st.panic THEN [panic |-> TRUE, lines |-> <<>>]
    ELSE IF lines = <<>> THEN [panic |-> FALSE, lines |-> <<<<prefix, TRUE>>>>]
    ELSE [panic |-> FALSE,
          lines |-> [i \in 1..Len(lines) |->
                        IF i = 1 THEN <<prefix \o lines[i], TRUE>>
                        ELSE <<continuation_prefix \o lines[i], FALSE>>]]

-----------------------------------------------------------------------------
(* The wrap scenario: one call of wrap_todo_item_text *)

MaxWrapLen == 5
MaxWrapWidth == 10

WrapChars == {"a", " ", UUML}

WrapTexts == UNION {[1..n -> WrapChars] : n \in 0..MaxWrapLen}

WrapItems == {TodoItem(t, c, k) : t \in WrapTexts, c \in BOOLEAN, k \in {0, 1}}

\* a call that shows the item's text
WrapCallText(it, w, sel, editing) ==
    [item |-> it, available_width |-> w, is_selected |-> sel, edit_text |-> <<>>,
     edit_cursor |-> 0, is_editing |-> editing]

\* a call that shows the edit buffer with the cursor (the item's text is not
\* looked at)
WrapCallEdit(c, k, w, t, cur) ==
    [item |-> TodoItem(<<"a">>, c, k), available_width |-> w, is_selected |-> TRUE,
     edit_text |-> t, edit_cursor |-> cur, is_editing |-> TRUE]

WrapInit ==
    /\ AppIdle
    /\ c_pc = "call"
    /\ \/ \E it \in WrapItems, w \in 0..MaxWrapWidth,
             f \in {<<FALSE, FALSE>>, <<TRUE, FALSE>>, <<FALSE, TRUE>>} :
             c_in = WrapCallText(it, w, f[1], f[2])
       \/ \E t \in WrapTexts, c \in BOOLEAN, k \in {0, 1}, w \in 0..MaxWrapWidth :
             \E cur \in 0..(Len(t) + 1) : c_in = WrapCallEdit(c, k, w, t, cur)
    /\ c_md = <<>>
    /\ c_list = [date |-> Today, items |-> <<>>]
    /\ c_out = [panic |-> FALSE, lines |-> <<>>]

Wrap ==
    /\ c_pc = "call"
    /\ c_out' = wrap_todo_item_text(c_in.item, c_in.available_width, c_in.is_selected,
                                    c_in.edit_text, c_in.edit_cursor, c_in.is_editing)
    /\ c_pc' = "wrapped"
    /\ UNCHANGED <<c_list, c_md, c_in>>
    /\ UNCHANGED appVars

WrapNext == Wrap

SpecWrap == WrapInit /\ [][WrapNext]_vars

\* the width of the prefix: the indent, "* ", the checkbox and a space
PrefixWidth(item) == 2 * item.indent_level + 6

\* the text a call lays out: the edit buffer with the cursor marker at the
\* cursor's character offset when the item is selected and edited, else the
\* item's text
WrapShown(call) ==
    IF call.is_editing /\ call.is_selected
    THEN LET k == Min(call.edit_cursor, Len(call.edit_text)) IN
         SubSeq(call.edit_text, 1, k) \o <<"|">>
         \o SubSeq(call.edit_text, k + 1, Len(call.edit_text))
    ELSE call.item.text

\* what line i shows after its prefix or its indent
LineContent(call, out, i) ==
    IF i = 1
    THEN SubSeq(out.lines[1][1], PrefixWidth(call.item) + 1, Len(out.lines[1][1]))
    ELSE TrimStart(out.lines[i][1])

\* C28: when available_width exceeds the prefix width, every produced line is
\* at most available_width characters wide, and every word longer than
\* content_width comes out in chunks of exactly content_width characters (the
\* last one possibly shorter), each full chunk being the content of a line
C28_LinesFit ==
    (c_pc = "wrapped" /\ c_in.available_width > PrefixWidth(c_in.item)) =>
        /\ ~c_out.panic
        /\ \A i \in 1..Len(c_out.lines) : Len(c_out.lines[i][1]) <= c_in.available_width
        /\ LET content_width == c_in.available_width - PrefixWidth(c_in.item)
               words == SplitWhitespace(WrapShown(c_in), <<>>)
           IN \A k \in 1..Len(words) :
                Len(words[k]) > content_width =>
                  \A j \in 1..(Len(words[k]) \div content_width) :
                    \E i \in 1..Len(c_out.lines) :
                      LineContent(c_in, c_out, i) =
                        SubSeq(words[k], (j - 1) * content_width + 1, j * content_width)

\* C29: every continuation line starts with as many spaces as the primary
\* line's prefix is wide, so that its text starts in the column of the
\* primary line's text
C29_ContinuationAligned ==
    (c_pc = "wrapped") =>
        \A i \in 2..Len(c_out.lines) :
            LET line == c_out.lines[i][1]
                width == PrefixWidth(c_in.item)
            IN /\ Len(line) > width
               /\ \A j \in 1..width : line[j] = " "
               /\ line[width + 1] # " "

\* the prefix of an item's primary line
ExpectedPrefix(item) ==
    Spaces(2 * item.indent_level) \o <<"*", " ">>
    \o (IF item.completed THEN <<"[", "x", "]">> ELSE <<"[", " ", "]">>) \o <<" ">>

\* C30: for every item, width and editing state the wrap returns at least one
\* line; the first line is tagged primary and starts with the prefix, every
\* later line is tagged non-primary and does not start with the prefix
C30_PrimaryLineFirst ==
    (c_pc = "wrapped") =>
        /\ ~c_out.panic
        /\ Len(c_out.lines) >= 1
        /\ c_out.lines[1][2]
        /\ StartsWith(c_out.lines[1][1], ExpectedPrefix(c_in.item))
        /\ \A i \in 2..Len(c_out.lines) :
             /\ ~c_out.lines[i][2]
             /\ ~StartsWith(c_out.lines[i][1], ExpectedPrefix(c_in.item))


\* does the text hold a character of more than one byte
HasMultiByte(s) == \E i \in 1..Len(s) : Utf8Len(s[i]) > 1

\* the words a line shows
LineWords(call, out, i) == SplitWhitespace(LineContent(call, out, i), <<>>)

\* C31: on a text with multi-byte characters wrap_todo_item_text does not
\* crash, whatever the width; widths count characters, so a word of at most
\* content_width characters is shown whole on one line
C31_MultiByteSafe ==
    (c_pc = "wrapped" /\ HasMultiByte(WrapShown(c_in))) =>
        /\ ~c_out.panic
        /\ c_in.available_width > PrefixWidth(c_in.item) =>
             LET content_width == c_in.available_width - PrefixWidth(c_in.item)
                 words == SplitWhitespace(WrapShown(c_in), <<>>)
             IN \A k \in 1..Len(words) :
                  Len(words[k]) <= content_width =>
                    \E i \in 1..Len(c_out.lines) :
                      \E j \in 1..Len(LineWords(c_in, c_out, i)) :
                        LineWords(c_in, c_out, i)[j] = words[k]


\* the characters of s that are not whitespace
NonWhitespace(s) == SelectSeq(s, LAMBDA c : ~IsWhitespace(c))

\* what the lines show after their prefix or indent, line after line
ShownByLines(call, out) ==
    Concat([i \in 1..Len(out.lines) |-> LineContent(call, out, i) \o <<" ">>])

MarkerCount(s) == Len(SelectSeq(s, LAMBDA c : c = "|"))

\* line i without its list prefix (first line) or its continuation indent
Unprefixed(call, out, i) ==
    Skip(out.lines[i][1],
         IF i = 1 THEN PrefixWidth(call.item) ELSE 2 * call.item.indent_level + 3)

\* C40: when available_width exceeds the prefix width the lines, stripped of
\* prefix and continuation indent, hold in line order exactly the characters
\* of the displayed text that are not whitespace, none lost, added or reordered
C40_NothingLost ==
    (c_pc = "wrapped" /\ c_in.available_width > PrefixWidth(c_in.item)) =>
        /\ ~c_out.panic
        /\ Concat([i \in 1..Len(c_out.lines) |-> NonWhitespace(Unprefixed(c_in, c_out, i))])
             = NonWhitespace(WrapShown(c_in))



\* C32: a selected item that is being edited is laid out from the edit buffer
\* with exactly one cursor marker at the character offset edit_cursor (at the
\* end from the buffer's length on), multi-byte text included; otherwise the
\* item's text is laid out and no marker is added
C32_CursorMarker ==
    (c_pc = "wrapped") =>
        /\ ~c_out.panic
        /\ MarkerCount(ShownByLines(c_in, c_out)) =
             IF c_in.is_editing /\ c_in.is_selected THEN 1 ELSE 0
        /\ IF c_in.available_width <= PrefixWidth(c_in.item)
           THEN LineContent(c_in, c_out, 1) = WrapShown(c_in)
           ELSE /\ NonWhitespace(ShownByLines(c_in, c_out)) = NonWhitespace(WrapShown(c_in))
                /\ Len(c_out.lines) = 1
                   => SplitWhitespace(LineContent(c_in, c_out, 1), <<>>)
                        = SplitWhitespace(WrapShown(c_in), <<>>)


-----------------------------------------------------------------------------
(* Startup and shutdown: main, create_lock_file, load_or_create_todo_list and
   the Drop implementations of the two owners of the lock file *)

MaxDirFiles == 2
MaxStarts == 2

Yesterday == [y |-> 2025, m |-> 8, d |-> 13]
Tomorrow == [y |-> 2025, m |-> 8, d |-> 15]

\* the ordering of NaiveDate
DateLe(a, b) ==
    \/ a.y < b.y
    \/ a.y = b.y /\ a.m < b.m
    \/ a.y = b.y /\ a.m = b.m /\ a.d <= b.d

EndsWith(s, p) == Len(s) >= Len(p) /\ SubSeq(s, Len(s) - Len(p) + 1, Len(s)) = p

\* strip_suffix(p).unwrap(), called where ends_with(p) holds
StripSuffix(s, p) == SubSeq(s, 1, Len(s) - Len(p))

TodoPrefix == <<"T", "O", "D", "O", "-">>
MdSuffix == <<".", "m", "d">>

\* TodoList::filename
filename(date) == TodoPrefix \o FormatDate(date) \o MdSuffix

\* a directory entry: the file's name and content as the program sees them,
\* and what the file is meant to be: the date its name stands for (NoDate: not
\* a todo file), whether its content decodes, and the header date and the
\* items it was encoded from
DirEntry(name, date, content, valid, header, its) ==
    [name |-> name, date |-> date, content |-> content, valid |-> valid,
     header |-> header, items |-> its]

DirNames ==
    {[name |-> filename(d), date |-> d] : d \in {Today, Yesterday, Tomorrow}}
    \cup {[name |-> <<"n", "o", "t", "e", "s">> \o MdSuffix, date |-> NoDate],
          [name |-> TodoPrefix \o <<"x">> \o MdSuffix, date |-> NoDate]}

DirContents ==
    {[content |-> to_markdown([date |-> h, items |-> its]), valid |-> TRUE,
      header |-> h, items |-> its] :
        h \in {Today, Yesterday}, its \in {<<ItemA>>, <<ItemC, ItemA>>}}
    \cup {[content |-> <<"x">>, valid |-> FALSE, header |-> NoDate, items |-> <<>>]}

DirEntries ==
    {DirEntry(n.name, n.date, c.content, c.valid, c.header, c.items) :
        n \in DirNames, c \in DirContents}

RECURSIVE NewestFile(_, _, _)
\* the loop over read_dir: newest is [some, date, content]
NewestFile(entries, newest, target_date) ==
    IF entries = <<>> THEN newest
    ELSE LET file_name == Head(entries).name
             rest == Tail(entries)
         IN
         IF StartsWith(file_name, TodoPrefix) /\ EndsWith(file_name, MdSuffix)
         THEN LET file_date == ParseDate(StripSuffix(StripPrefix(file_name, TodoPrefix),
                                                     MdSuffix))
              IN IF file_date # NoDate /\ DateLe(file_date, target_date)
                    /\ (~newest.some \/ ~DateLe(file_date, newest.date))
                 THEN NewestFile(rest, [some |-> TRUE, date |-> file_date,
                                        content |-> Head(entries).content],
                                 target_date)
                 ELSE NewestFile(rest, newest, target_date)
         ELSE NewestFile(rest, newest, target_date)

\* the list made of a decoded file: the date becomes target_date when the date
\* in the file's name differs from it
LoadedList(r, file_date, target_date) ==
    IF ~r.ok THEN [ok |-> FALSE, err |-> r.err]
    ELSE [ok |-> TRUE,
          list |-> [date |-> IF file_date # target_date THEN target_date ELSE r.date,
                    items |-> r.items]]

\* what follows the loop over read_dir; read_ok: whether fs::read_to_string
\* succeeds
LoadNewest(newest_file, target_date, read_ok) ==
    IF newest_file.some
    THEN IF ~read_ok THEN [ok |-> FALSE, err |-> "read"]
         ELSE LoadedList(from_markdown(newest_file.content), newest_file.date, target_date)
    ELSE [ok |-> TRUE, list |-> [date |-> target_date, items |-> <<>>]]

load_or_create_todo_list(dir, target_date, read_ok) ==
    LoadNewest(NewestFile(dir, [some |-> FALSE, date |-> NoDate, content |-> <<>>],
                          target_date),
               target_date, read_ok)

\* fs::write(dir/name, content): the file is replaced or created
WriteFile(dir, list) ==
    LET e == DirEntry(filename(list.date), list.date, to_markdown(list), TRUE,
                      list.date, list.items)
    IN IF \E i \in 1..Len(dir) : dir[i].name = e.name
       THEN [i \in 1..Len(dir) |-> IF dir[i].name = e.name THEN e ELSE dir[i]]
       ELSE Append(dir, e)

\* save_todo_list as the Drop implementations call it (`let _ =`): the date
\* becomes today's, then the file is written, or the write fails
DropSave(dir, list, ok) ==
    IF ok THEN WriteFile(dir, [list EXCEPT !.date = Today]) ELSE dir

MainInit ==
    /\ AppIdle
    /\ c_pc = "start"
    /\ \E n \in 0..MaxDirFiles, gui \in BOOLEAN :
         \E d \in [1..n -> DirEntries] :
            /\ \A i, j \in 1..n : i # j => d[i].name # d[j].name
            /\ c_in = [dir |-> d, gui |-> gui]
    /\ c_md = <<>>
    /\ c_list = [date |-> Today, items |-> <<>>]
    /\ \E lock \in BOOLEAN :
         c_out = [lock |-> lock, acquired |-> FALSE, result |-> "none", err |-> "none",
                  starts |-> 1, prev |-> "none"]

\* how main ends: the process is gone, the directory and the lock file stay
Exit(result, err, lock, dir) ==
    /\ c_pc' = "exited"
    /\ c_out' = [c_out EXCEPT !.result = result, !.err = err, !.lock = lock]
    /\ c_in' = [c_in EXCEPT !.dir = dir]
    /\ UNCHANGED <<c_list, c_md>>
    /\ UNCHANGED appVars

\* let lock_file = create_lock_file(&config_dir)?
CreateLock ==
    /\ c_pc = "start"
    /\ IF c_out.lock
       THEN Exit("err", "Another instance", c_out.lock, c_in.dir)
       ELSE /\ c_pc' = "locked"
            /\ c_out' = [c_out EXCEPT !.lock = TRUE, !.acquired = TRUE]
            /\ UNCHANGED <<c_in, c_list, c_md>>
            /\ UNCHANGED appVars

\* let todo_list = load_or_create_todo_list(&config_dir, today)?: on Err main
\* returns and the File is dropped, which closes it
Load ==
    /\ c_pc = "locked"
    /\ \E read_ok \in BOOLEAN :
       \E r \in {load_or_create_todo_list(c_in.dir, Today, read_ok)} :
         IF r.ok
         THEN /\ c_pc' = IF c_in.gui THEN "gui" ELSE "tui"
              /\ c_list' = r.list
              /\ UNCHANGED <<c_in, c_out, c_md>>
              /\ UNCHANGED appVars
         ELSE Exit("err", r.err, c_out.lock, c_in.dir)

\* run_tui: the terminal setup may fail before the App exists; else the App
\* runs until the quit key and is dropped: Drop for App saves and removes the
\* lock file
RunTui ==
    /\ c_pc = "tui"
    /\ \E terminal_ok \in BOOLEAN, ok \in WriteOutcomes :
         IF ~terminal_ok
         THEN Exit("err", "terminal", c_out.lock, c_in.dir)
         ELSE Exit("ok", "none", FALSE, DropSave(c_in.dir, c_list, ok))

\* run_gui: the window may fail to open; else the event loop runs until the
\* window is closed; either way the TodoApp is dropped: Drop for TodoApp saves
RunGui ==
    /\ c_pc = "gui"
    /\ \E window_ok \in BOOLEAN, ok \in WriteOutcomes :
         IF ~window_ok
         THEN Exit("err", "window", c_out.lock, DropSave(c_in.dir, c_list, ok))
         ELSE Exit("ok", "none", c_out.lock, DropSave(c_in.dir, c_list, ok))

\* the program is started again
Restart ==
    /\ c_pc = "exited"
    /\ c_out.starts < MaxStarts
    /\ c_pc' = "start"
    /\ c_out' = [c_out EXCEPT !.starts = @ + 1, !.prev = c_out.result,
                              !.result = "none", !.err = "none", !.acquired = FALSE]
    /\ UNCHANGED <<c_in, c_list, c_md>>
    /\ UNCHANGED appVars

MainNext == CreateLock \/ Load \/ RunTui \/ RunGui \/ Restart

SpecMain == MainInit /\ [][MainNext]_vars


\* C33: after a clean shutdown (quit key in the terminal, window closed in the
\* graphical front-end) the lock file is gone, and a start that follows a clean
\* shutdown is not rejected as another instance
C33_CleanShutdownUnlocks ==
    /\ (c_pc = "exited" /\ c_out.result = "ok") => ~c_out.lock
    /\ (c_pc = "exited" /\ c_out.err = "Another instance") => c_out.prev # "ok"

\* C34: on every exit after the lock file was acquired, the exit on a failed
\* load included, the lock file is removed
C34_EveryExitUnlocks ==
    (c_pc = "exited" /\ c_out.acquired) => ~c_out.lock


DateNum(date) == date.y * 10000 + date.m * 100 + date.d

\* the todo files of the directory that are not dated after today
Qualifying(dir) ==
    {i \in 1..Len(dir) : dir[i].date # NoDate /\ DateNum(dir[i].date) <= DateNum(Today)}

\* the one with the greatest date among them
Latest(dir) ==
    CHOOSE i \in Qualifying(dir) :
        \A j \in Qualifying(dir) : DateNum(dir[j].date) <= DateNum(dir[i].date)

\* C35: load_or_create_todo_list returns the items of the file TODO-{d}.md
\* with the greatest d <= today, never a file dated after today, and an empty
\* list if there is no such file; the list is dated today
C35_LoadsLatest ==
    (c_pc \in {"tui", "gui"}) =>
        /\ c_list.date = Today
        /\ c_list.items = IF Qualifying(c_in.dir) = {} THEN <<>>
                          ELSE c_in.dir[Latest(c_in.dir)].items


-----------------------------------------------------------------------------
(* Key-event claims on the modes and on cancelled edits *)

BufferArm(arm) == arm \in {"Char", "Backspace", "Delete", "Left", "Right", "Home", "End"}

\* C36: in Edit mode a typed character, Backspace, Delete, Left, Right, Home
\* and End change neither the mode, nor the list, nor selected_index, nor the
\* quit flag, and write nothing; a typed character, 'q', 'x', 'd' and 'i'
\* included, goes into the buffer at the cursor
C36_BufferKeysFrame ==
    [][(mode = "Edit" /\ KeyStep /\ BufferArm(last'.arm))
       => /\ UNCHANGED <<mode, items, selected_index, should_quit, disk, crashed>>
          /\ last'.result = "ok" /\ ~last'.wrote
          /\ last'.arm = "Char"
             => /\ Len(edit_text') = Len(edit_text) + 1
                /\ edit_text'[edit_cursor + 1] = last'.ch
                /\ edit_cursor' = edit_cursor + 1]_vars

C36_Witness ==
    /\ last.arm = "Char" /\ last.ch = "q" /\ last.prev = "Backspace"
    /\ last.mode = "Edit" /\ mode = "Edit"
    /\ edit_text = <<"q", "q">>
    /\ ~should_quit
    /\ Len(items) = 3


\* C37: the mode changes only from Selection to Edit or Delete and from Edit
\* or Delete to Selection, never between Edit and Delete; the quit flag is set
\* only in Selection mode; and one Esc in Edit or Delete mode leads back to
\* Selection
C37_ModeGraph ==
    [][/\ mode' # mode
          => <<mode, mode'>> \in {<<"Selection", "Edit">>, <<"Selection", "Delete">>,
                                  <<"Edit", "Selection">>, <<"Delete", "Selection">>}
       /\ (should_quit' /\ ~should_quit) => mode = "Selection"
       /\ (mode \in {"Edit", "Delete"} /\ KeyStep /\ last'.arm = "Esc")
          => mode' = "Selection"]_vars


\* C38: Esc pressed right after the insert key restores the list and the
\* selection: the selection is the one the insert key found, the list has the
\* length it had and is the list in Edit mode less one item; when insert was
\* the first key of the session the list is the initial one again.
C38_InsertThenEsc ==
    [][(KeyStep /\ last'.arm = "Esc" /\ last.arm = "i" /\ last.mode = "Selection")
       => /\ selected_index' = last.selected_index
          /\ Len(items') = last.len
          /\ \E i \in 0..Len(items) : items' = VecRemove(items, i)
          /\ nkeys = 1 => items' \in InitialLists]_vars


\* C39: a cancelled edit of an existing item with non-empty text leaves the
\* list and the selection as they were: Enter opens the buffer without touching
\* them, every buffer key leaves them alone, and Esc leaves them alone, writes
\* nothing and returns to Selection; after Enter, at most one buffer key and
\* Esc as the first keys of a session the list is the initial one
C39_CancelKeepsList ==
    [][(KeyStep /\ InRange /\ At(items, selected_index).text # <<>>)
       => /\ (mode = "Selection" /\ last'.arm = "Enter")
             => /\ UNCHANGED <<items, selected_index, disk>>
                /\ mode' = "Edit"
          /\ (mode = "Edit" /\ BufferArm(last'.arm))
             => /\ UNCHANGED <<items, selected_index, disk, mode>>
          /\ (mode = "Edit" /\ last'.arm = "Esc")
             => /\ UNCHANGED <<items, selected_index, disk>>
                /\ mode' = "Selection"
                /\ last'.result = "ok"
          /\ ( /\ mode = "Edit" /\ last'.arm = "Esc"
               /\ \/ nkeys = 1 /\ last.arm = "Enter"
                  \/ nkeys = 2 /\ last.prev = "Enter" /\ BufferArm(last.arm) )
             => items' \in InitialLists /\ selected_index' = 0]_vars

C39_Witness ==
    /\ last.arm = "Esc" /\ last.mode = "Edit" /\ last.prev = "Backspace"
    /\ mode = "Selection" /\ nkeys = 3
    /\ items = <<ItemA>> /\ selected_index = 0
    /\ edit_text = <<"q">>
=============================================================================
